---- MODULE Spec2Model ----
(***************************************************************************)
(* Stream proxy worker (src/stream-proxy-worker/src/index.ts).             *)
(*                                                                         *)
(* One client request is followed from its arrival to the end of its       *)
(* response: the three route handlers, the upstream fetch, and the relay   *)
(* of the upstream body stream.  Text that goes through the key decoding   *)
(* (keys, URLs, request header values) is a sequence of one-character      *)
(* strings, so that base64url decoding, UTF-8 decoding and JSON parsing    *)
(* are computed rather than assumed.                                       *)
(***************************************************************************)
EXTENDS Integers, Sequences, FiniteSets, TLC

(***************************************************************************)
(* Bounds of the model.                                                    *)
(***************************************************************************)
\* Largest number of chunks an upstream body is delivered in.
MaxChunks == 2

(***************************************************************************)
(* Text constants.                                                         *)
(***************************************************************************)
\* The base64url alphabet, in the order of the 6-bit values 0..63.
B64Alphabet ==
    <<"A", "B", "C", "D", "E", "F", "G", "H", "I", "J", "K", "L", "M", "N",
    "O", "P", "Q", "R", "S", "T", "U", "V", "W", "X", "Y", "Z", "a", "b",
    "c", "d", "e", "f", "g", "h", "i", "j", "k", "l", "m", "n", "o", "p",
    "q", "r", "s", "t", "u", "v", "w", "x", "y", "z", "0", "1", "2", "3",
    "4", "5", "6", "7", "8", "9", "-", "_">>

\* The characters of codes 32..126 (the grave accent, code 96, is written
\* "U+0060").
AsciiPrintable ==
    <<" ", "!", "\"", "#", "$", "%", "&", "'", "(", ")", "*", "+", ",", "-",
    ".", "/", "0", "1", "2", "3", "4", "5", "6", "7", "8", "9", ":", ";",
    "<", "=", ">", "?", "@", "A", "B", "C", "D", "E", "F", "G", "H", "I",
    "J", "K", "L", "M", "N", "O", "P", "Q", "R", "S", "T", "U", "V", "W",
    "X", "Y", "Z", "[", "\\", "]", "^", "_", "U+0060", "a", "b", "c", "d", "e",
    "f", "g", "h", "i", "j", "k", "l", "m", "n", "o", "p", "q", "r", "s",
    "t", "u", "v", "w", "x", "y", "z", "{", "|", "}", "~">>

\* The replacement character U+FFFD that UTF-8 decoding yields for a byte
\* that is not part of a well-formed sequence.
ReplacementChar == "U+FFFD"

\* A control character (code below 32, or 127).
ControlChar == "CTRL"

\* index.ts:39, the fixed User-Agent of the upstream request.
UserAgent ==
    <<"M", "o", "z", "i", "l", "l", "a", "/", "5", ".", "0", " ", "(", "W",
    "i", "n", "d", "o", "w", "s", " ", "N", "T", " ", "1", "0", ".", "0",
    ";", " ", "W", "i", "n", "6", "4", ";", " ", "x", "6", "4", ")", " ",
    "A", "p", "p", "l", "e", "W", "e", "b", "K", "i", "t", "/", "5", "3",
    "7", ".", "3", "6">>

DirectUrlName ==
    <<"d", "i", "r", "e", "c", "t", "U", "r", "l">>

RefererName ==
    <<"r", "e", "f", "e", "r", "e", "r">>

UndefinedText ==
    <<"u", "n", "d", "e", "f", "i", "n", "e", "d">>

HttpPrefix ==
    <<"h", "t", "t", "p", ":", "/", "/">>

HttpsPrefix ==
    <<"h", "t", "t", "p", "s", ":", "/", "/">>

(***************************************************************************)
(* Request inputs: the stream keys, Range values and client User-Agent     *)
(* the model draws requests from.                                          *)
(***************************************************************************)
\* The absent path parameter.
KeyEmpty == <<>>

\* Text outside the base64url alphabet.
KeyNotBase64 == <<"!", "!", "!">>

\* base64url of the single byte 0xFF, which is not UTF-8.
KeyNotUtf8 == <<"_", "w">>

\* base64url of the UTF-8 text  hi
KeyNotJson ==
    <<"a", "G", "k">>

\* base64url of the UTF-8 text  null
KeyNull ==
    <<"b", "n", "V", "s", "b", "A">>

\* base64url of the UTF-8 text  {}
KeyEmptyObject ==
    <<"e", "3", "0">>

\* base64url of the UTF-8 text  {"directUrl":"http://a/s"}
KeyNoReferer ==
    <<"e", "y", "J", "k", "a", "X", "J", "l", "Y", "3", "R", "V", "c", "m",
    "w", "i", "O", "i", "J", "o", "d", "H", "R", "w", "O", "i", "8", "v",
    "Y", "S", "9", "z", "I", "n", "0">>

\* base64url of the UTF-8 text  {"referer":"http://r"}
KeyNoDirectUrl ==
    <<"e", "y", "J", "y", "Z", "W", "Z", "l", "c", "m", "V", "y", "I", "j",
    "o", "i", "a", "H", "R", "0", "c", "D", "o", "v", "L", "3", "I", "i",
    "f", "Q">>

\* base64url of the UTF-8 text  {"directUrl":"a/s","referer":"http://r"}
KeyBadUrl ==
    <<"e", "y", "J", "k", "a", "X", "J", "l", "Y", "3", "R", "V", "c", "m",
    "w", "i", "O", "i", "J", "h", "L", "3", "M", "i", "L", "C", "J", "y",
    "Z", "W", "Z", "l", "c", "m", "V", "y", "I", "j", "o", "i", "a", "H",
    "R", "0", "c", "D", "o", "v", "L", "3", "I", "i", "f", "Q">>

\* base64url of the UTF-8 text  {"directUrl":"http://a/s","referer":"http://r"}
KeyValid ==
    <<"e", "y", "J", "k", "a", "X", "J", "l", "Y", "3", "R", "V", "c", "m",
    "w", "i", "O", "i", "J", "o", "d", "H", "R", "w", "O", "i", "8", "v",
    "Y", "S", "9", "z", "I", "i", "w", "i", "c", "m", "V", "m", "Z", "X",
    "J", "l", "c", "i", "I", "6", "I", "m", "h", "0", "d", "H", "A", "6",
    "L", "y", "9", "y", "I", "n", "0">>

\* base64url of the UTF-8 text  {"directUrl":"https://b","referer":""}
KeyEmptyReferer ==
    <<"e", "y", "J", "k", "a", "X", "J", "l", "Y", "3", "R", "V", "c", "m",
    "w", "i", "O", "i", "J", "o", "d", "H", "R", "w", "c", "z", "o", "v",
    "L", "2", "I", "i", "L", "C", "J", "y", "Z", "W", "Z", "l", "c", "m",
    "V", "y", "I", "j", "o", "i", "I", "n", "0">>

RangeBytes ==
    <<"b", "y", "t", "e", "s", "=", "1", "0", "0", "-", "1", "9", "9">>

ClientAgent ==
    <<"c", "u", "r", "l", "/", "8">>

Keys ==
    {KeyEmpty, KeyNotBase64, KeyNotUtf8, KeyNotJson, KeyNull, KeyEmptyObject,
     KeyNoReferer, KeyNoDirectUrl, KeyBadUrl, KeyValid, KeyEmptyReferer}

(***************************************************************************)
(* Buffer.from(stream_key, 'base64url').toString('utf8')   (index.ts:30)   *)
(***************************************************************************)
\* The 6-bit value of a character of the base64 / base64url alphabets, or -1.
B64Value(c) ==
    IF c = "+" THEN 62
    ELSE IF c = "/" THEN 63
    ELSE IF \E i \in 1..64 : B64Alphabet[i] = c
         THEN (CHOOSE i \in 1..64 : B64Alphabet[i] = c) - 1
         ELSE -1

\* The decoder does not throw: characters outside the alphabet are skipped.
RECURSIVE Sextets(_)
Sextets(s) ==
    IF s = <<>> THEN <<>>
    ELSE IF B64Value(Head(s)) >= 0
         THEN <<B64Value(Head(s))>> \o Sextets(Tail(s))
         ELSE Sextets(Tail(s))

\* Byte k (from 0) of the bit stream made of the sextets.
ByteAt(sx, k) ==
    LET i   == (8 * k) \div 6
        off == (8 * k) % 6
        two == sx[i + 1] * 64 + sx[i + 2]
    IN  (two \div (2 ^ (4 - off))) % 256

BufferFromBase64url(s) ==
    LET sx == Sextets(s)
    IN  [k \in 1..((Len(sx) * 6) \div 8) |-> ByteAt(sx, k - 1)]

\* Buffer.toString('utf8') never throws either: a byte that is not part of a
\* well-formed sequence becomes U+FFFD.  Only one-byte sequences are decoded.
CharOfByte(b) ==
    IF b >= 32 /\ b <= 126 THEN AsciiPrintable[b - 31]
    ELSE IF b < 128 THEN ControlChar
    ELSE ReplacementChar

ToStringUtf8(bytes) == [k \in 1..Len(bytes) |-> CharOfByte(bytes[k])]

DecodeKey(stream_key) == ToStringUtf8(BufferFromBase64url(stream_key))

(***************************************************************************)
(* JavaScript values and JSON.parse   (index.ts:29)                        *)
(***************************************************************************)
Undefined == [type |-> "undefined"]
Null      == [type |-> "null"]
Str(s)    == [type |-> "string", s |-> s]
Obj(f)    == [type |-> "object", fields |-> f]

NoFields == [k \in {} |-> Undefined]

Quote == "\""

\* A string literal starting at p: its text and the position after it.
\* Escapes are outside the grammar modelled (a backslash ends the parse).
ParseString(t, p) ==
    IF p <= Len(t) /\ t[p] = Quote
       /\ \E q \in (p + 1)..Len(t) : t[q] = Quote
    THEN LET q == CHOOSE q \in (p + 1)..Len(t) :
                      /\ t[q] = Quote
                      /\ \A r \in (p + 1)..(q - 1) : t[r] # Quote
         IN  [ok   |-> \A r \in (p + 1)..(q - 1) :
                           t[r] \notin {"\\", ControlChar},
              s    |-> SubSeq(t, p + 1, q - 1),
              next |-> q + 1]
    ELSE [ok |-> FALSE, s |-> <<>>, next |-> p]

\* The members of an object from position p on, added to acc; a later
\* duplicate of a name replaces the earlier one.
RECURSIVE ParseMembers(_, _, _)
ParseMembers(t, p, acc) ==
    LET k == ParseString(t, p)
        v == ParseString(t, k.next + 1)
        bad == [ok |-> FALSE, fields |-> NoFields, next |-> p]
    IN  IF ~k.ok \/ k.next > Len(t) \/ t[k.next] # ":" \/ ~v.ok
           \/ v.next > Len(t)
        THEN bad
        ELSE LET more == [n \in (DOMAIN acc) \cup {k.s} |->
                              IF n = k.s THEN Str(v.s) ELSE acc[n]]
             IN  IF t[v.next] = "}"
                 THEN [ok |-> TRUE, fields |-> more, next |-> v.next + 1]
                 ELSE IF t[v.next] = ","
                      THEN ParseMembers(t, v.next + 1, more)
                      ELSE bad

\* JSON.parse over the grammar  null | string | { "name": string, ... } ,
\* without white space.  ok = FALSE stands for the SyntaxError it throws.
JSONParse(t) ==
    LET bad == [ok |-> FALSE, value |-> Undefined]
    IN  IF t = <<"n", "u", "l", "l">> THEN [ok |-> TRUE, value |-> Null]
        ELSE IF t = <<>> THEN bad
        ELSE IF t[1] = Quote
             THEN LET s == ParseString(t, 1)
                  IN  IF s.ok /\ s.next = Len(t) + 1
                      THEN [ok |-> TRUE, value |-> Str(s.s)]
                      ELSE bad
        ELSE IF t[1] = "{"
             THEN IF t = <<"{", "}">>
                  THEN [ok |-> TRUE, value |-> Obj(NoFields)]
                  ELSE LET m == ParseMembers(t, 2, NoFields)
                       IN  IF m.ok /\ m.next = Len(t) + 1
                           THEN [ok |-> TRUE, value |-> Obj(m.fields)]
                           ELSE bad
        ELSE bad

\* Property read  value.name : undefined on a value without that property.
GetField(value, name) ==
    IF value.type = "object" /\ name \in DOMAIN value.fields
    THEN value.fields[name]
    ELSE Undefined

\* ToString(value), as applied to a header value and to fetch's first argument.
ToText(value) ==
    IF value.type = "string" THEN value.s
    ELSE IF value.type = "null" THEN <<"n", "u", "l", "l">>
    ELSE IF value.type = "undefined" THEN UndefinedText
    ELSE <<"[", "o", "b", "j", "e", "c", "t", " ", "O", "b", "j", "e", "c", "t", "]">>


(***************************************************************************)
(* Header values and header maps.                                          *)
(***************************************************************************)
Star ==
    <<"*">>

AllowMethods ==
    <<"G", "E", "T", ",", " ", "O", "P", "T", "I", "O", "N", "S">>

AllowHeaders ==
    <<"R", "a", "n", "g", "e">>

TextPlain ==
    <<"t", "e", "x", "t", "/", "p", "l", "a", "i", "n", ";", " ", "c", "h",
    "a", "r", "s", "e", "t", "=", "U", "T", "F", "-", "8">>

ApplicationJson ==
    <<"a", "p", "p", "l", "i", "c", "a", "t", "i", "o", "n", "/", "j", "s",
    "o", "n">>

VideoMp4 ==
    <<"v", "i", "d", "e", "o", "/", "m", "p", "4">>

ContentRangeValue ==
    <<"b", "y", "t", "e", "s", " ", "1", "0", "0", "-", "1", "9", "9", "/",
    "1", "0", "0", "0">>

CookieValue ==
    <<"s", "i", "d", "=", "1">>

UpstreamOrigin ==
    <<"h", "t", "t", "p", "s", ":", "/", "/", "u", "p">>

\* A Headers object: a function from lower-case names to values.
NoHeaders == [n \in {} |-> <<>>]

\* Headers lower-cases the names it is given.
LowerName(name) ==
    IF name = "Access-Control-Allow-Origin" THEN "access-control-allow-origin"
    ELSE IF name = "Access-Control-Allow-Methods" THEN "access-control-allow-methods"
    ELSE IF name = "Access-Control-Allow-Headers" THEN "access-control-allow-headers"
    ELSE IF name = "Content-Type" THEN "content-type"
    ELSE name

HeadersSet(h, name, value) ==
    [n \in (DOMAIN h) \cup {LowerName(name)} |->
        IF n = LowerName(name) THEN value ELSE h[n]]

\* Headers.get: the value, or null when the header is absent.
HeadersGet(h, name) ==
    IF LowerName(name) \in DOMAIN h THEN Str(h[LowerName(name)]) ELSE Null

\* c.req.header(name): the value, or undefined when the header is absent.
ReqHeader(r, name) ==
    IF name \in DOMAIN r.headers THEN Str(r.headers[name]) ELSE Undefined

\* The condition of  if (value)  on the values that reach it.
Truthy(v) ==
    \/ v.type = "object"
    \/ v.type = "string" /\ v.s # <<>>

(***************************************************************************)
(* Requests and upstream responses the model draws from.                   *)
(***************************************************************************)
\* A client sends its own User-Agent, and may send a Range, whose value may
\* be empty.
RequestHeaderSets ==
    {h \in UNION {[S -> {<<>>, RangeBytes, ClientAgent}] :
                     S \in {{"user-agent"}, {"user-agent", "range"}}} :
        /\ "range" \in DOMAIN h => h["range"] \in {<<>>, RangeBytes}
        /\ h["user-agent"] = ClientAgent}

Requests ==
    {r \in [method : {"GET", "OPTIONS", "POST"}, path : {"stream", "other"},
            key : Keys, headers : RequestHeaderSets] :
        r.path = "other" => r.key = KeyEmpty}

NoRequest == [method |-> "", path |-> "", key |-> <<>>, headers |-> NoHeaders]

UpstreamHeaderNames ==
    {"content-type", "content-range", "set-cookie", "access-control-allow-origin"}

\* The values an upstream header takes; the empty value is a legal one.
UpstreamValues(n) ==
    IF n = "content-type" THEN {VideoMp4}
    ELSE IF n = "content-range" THEN {<<>>, ContentRangeValue}
    ELSE IF n = "set-cookie" THEN {CookieValue}
    ELSE {UpstreamOrigin}

UpstreamHeaderSets ==
    {h \in UNION {[S -> {<<>>, VideoMp4, ContentRangeValue, CookieValue,
                          UpstreamOrigin}] : S \in SUBSET UpstreamHeaderNames} :
        \A n \in DOMAIN h : h[n] \in UpstreamValues(n)}

UpstreamStatuses == {200, 206, 304, 404, 502}

\* Statuses whose response has no body (Fetch standard, "null body status").
NullBodyStatus(status) == status \in {101, 204, 205, 304}

\* What fetch resolves with: a status, headers, and a body stream unless the
\* status is a null body status.
UpstreamResponses ==
    {u \in [status : UpstreamStatuses, headers : UpstreamHeaderSets,
            hasBody : BOOLEAN] :
        u.hasBody = ~NullBodyStatus(u.status)}

NoUpstream == [status |-> 0, headers |-> NoHeaders, hasBody |-> FALSE]

\* Messages of the errors fetch rejects with.
FetchErrors == {"connection refused", "TLS handshake failed"}

\* The bytes an upstream body is made of.
Chunks == {"x", "y"}

(***************************************************************************)
(* Responses.                                                              *)
(***************************************************************************)
NoJson == [k \in {} |-> ""]

NoResponse ==
    [status |-> 0, headers |-> NoHeaders,
     body |-> [kind |-> "none", text |-> "", json |-> NoJson]]

\* c.text(text, status)
TextResponse(text, status) ==
    [status |-> status,
     headers |-> HeadersSet(NoHeaders, "Content-Type", TextPlain),
     body |-> [kind |-> "text", text |-> text, json |-> NoJson]]

\* c.json(object, status)
JsonResponse(object, status) ==
    [status |-> status,
     headers |-> HeadersSet(NoHeaders, "Content-Type", ApplicationJson),
     body |-> [kind |-> "json", text |-> "", json |-> object]]

(***************************************************************************)
(* GET /stream/:stream_key   (index.ts:22-75)                              *)
(***************************************************************************)
\* An exception value.
Error(message) == [isError |-> TRUE, message |-> message]

\* fetch performs a request only for an absolute http(s) URL; for any other
\* first argument it throws a TypeError before any request is made.
HasPrefix(s, p) == Len(s) >= Len(p) /\ SubSeq(s, 1, Len(p)) = p

IsFetchableUrl(url) ==
    \/ HasPrefix(url, HttpPrefix) /\ Len(url) > Len(HttpPrefix)
    \/ HasPrefix(url, HttpsPrefix) /\ Len(url) > Len(HttpsPrefix)

\* Variant of FetchHeaders that forgets the Range header.
FetchHeadersNoRange(referer, rangeHeader) ==
    [n \in {"Referer", "User-Agent"} |->
        IF n = "Referer" THEN ToText(referer) ELSE UserAgent]

\* index.ts:36-44
FetchHeaders(referer, rangeHeader) ==
    LET base == [n \in {"Referer", "User-Agent"} |->
                    IF n = "Referer" THEN ToText(referer) ELSE UserAgent]
    IN  IF Truthy(rangeHeader)
        THEN [n \in {"Referer", "User-Agent", "Range"} |->
                 IF n = "Range" THEN ToText(rangeHeader) ELSE base[n]]
        ELSE base

NoFetch == [url |-> <<>>, headers |-> NoHeaders]

\* index.ts:29-48, the try block up to the call of fetch: either an exception
\* is thrown, or fetch is called and sends the upstream request.
TryBlock(r) ==
    LET parsed == JSONParse(DecodeKey(r.key)) IN
    IF ~parsed.ok
    THEN [throws |-> TRUE, error |-> Error("Unexpected token in JSON"),
          fetch |-> NoFetch]
    ELSE IF parsed.value.type \in {"null", "undefined"}
    THEN [throws |-> TRUE, error |-> Error("Cannot destructure property"),
          fetch |-> NoFetch]
    ELSE LET directUrl == GetField(parsed.value, DirectUrlName)
             referer   == GetField(parsed.value, RefererName)
             rangeHeader == ReqHeader(r, "range")
         IN  IF ~IsFetchableUrl(ToText(directUrl))
             THEN [throws |-> TRUE, error |-> Error("Invalid URL"),
                   fetch |-> NoFetch]
             ELSE [throws |-> FALSE, error |-> Error(""),
                   fetch |-> [url |-> ToText(directUrl),
                              headers |-> FetchHeaders(referer, rangeHeader)]]

\* index.ts:52-55
PassThrough ==
    <<"content-type", "content-length", "content-range", "accept-ranges",
      "cache-control", "last-modified", "etag", "content-disposition">>

\* index.ts:57-60, the forEach over a list of names
RECURSIVE CopyHeaders(_, _, _)
CopyHeaders(list, upstreamHeaders, headers) ==
    IF list = <<>> THEN headers
    ELSE LET value == HeadersGet(upstreamHeaders, Head(list))
         IN  CopyHeaders(Tail(list), upstreamHeaders,
                         IF Truthy(value)
                         THEN HeadersSet(headers, Head(list), ToText(value))
                         ELSE headers)

\* Variant of ProxyHeaders that copies every upstream header.
ProxyHeadersAll(upstreamHeaders) ==
    HeadersSet(upstreamHeaders, "Access-Control-Allow-Origin", Star)

\* index.ts:51-62
ProxyHeaders(upstreamHeaders) ==
    HeadersSet(CopyHeaders(PassThrough, upstreamHeaders, NoHeaders),
               "Access-Control-Allow-Origin", Star)

\* new Response(body, init) throws a RangeError for a status outside 200..599
\* and a TypeError for a body with a null body status.
ResponseInitOk(status, hasBody) ==
    /\ status >= 200 /\ status <= 599
    /\ NullBodyStatus(status) => ~hasBody

\* Variant of ProxyResponse that leaves the status at its default, 200.
ProxyResponseDefaultStatus(response) ==
    [status |-> 200,
     headers |-> ProxyHeaders(response.headers),
     body |-> [kind |-> IF response.hasBody THEN "stream" ELSE "empty",
               text |-> "", json |-> NoJson]]

\* index.ts:64-67
ProxyResponse(response) ==
    [status |-> response.status,
     headers |-> ProxyHeaders(response.headers),
     body |-> [kind |-> IF response.hasBody THEN "stream" ELSE "empty",
               text |-> "", json |-> NoJson]]

\* Variant of CatchResponse with the instanceof test inverted.
CatchResponseInverted(error) ==
    JsonResponse([error |-> "stream failed",
                  message |-> IF ~error.isError THEN error.message
                              ELSE "unknown error"], 500)

\* index.ts:69-74
CatchResponse(error) ==
    JsonResponse([error |-> "stream failed",
                  message |-> IF error.isError THEN error.message
                              ELSE "unknown error"], 500)

(***************************************************************************)
(* State.                                                                  *)
(***************************************************************************)
VARIABLES
    pc,        \* "idle", "fetching" (awaiting fetch), "relaying", "done"
    req,       \* the client request
    decoded,   \* whether the handler has decoded the key
    fetches,   \* the upstream requests sent, in order
    upstream,  \* the response fetch resolved with
    upBody,    \* the chunks of the upstream body received so far
    upState,   \* the upstream body: "none", "open", "closed", "errored"
    res,       \* the response the handler returned
    failure,   \* the message fetch rejected with, "" while it has not
    out,       \* the body chunks emitted to the client
    outState   \* the client body: "none", "open", "closed", "aborted"

vars ==
    <<pc, req, decoded, fetches, upstream, upBody, upState, res, failure, out,
      outState>>

Init ==
    /\ pc = "idle"
    /\ req = NoRequest
    /\ decoded = FALSE
    /\ fetches = <<>>
    /\ upstream = NoUpstream
    /\ upBody = <<>>
    /\ upState = "none"
    /\ res = NoResponse
    /\ failure = ""
    /\ out = <<>>
    /\ outState = "none"

\* The handler returns a response it built itself (no stream to relay).
Respond(response) ==
    /\ res' = response
    /\ pc' = "done"
    /\ outState' = "closed"
    /\ UNCHANGED <<upstream, upBody, upState, out>>

\* index.ts:22-48: the GET handler up to its await of fetch.  The handler is
\* entered with whatever key the router hands it, the empty one included.
GetStream(r) ==
    /\ pc = "idle"
    /\ r.method = "GET" /\ r.path = "stream"
    /\ req' = r
    /\ IF r.key = <<>>
       THEN /\ Respond(TextResponse("stream_key is required", 400))
            /\ UNCHANGED <<decoded, fetches, failure>>
       ELSE /\ decoded' = TRUE
            /\ IF TryBlock(r).throws
               THEN /\ Respond(CatchResponse(TryBlock(r).error))
                    /\ UNCHANGED <<fetches, failure>>
               ELSE /\ fetches' = Append(fetches, TryBlock(r).fetch)
                    /\ pc' = "fetching"
                    /\ UNCHANGED <<upstream, upBody, upState, res, failure, out,
                                   outState>>

\* index.ts:46-67: fetch resolves; the handler returns the proxied response.
FetchResolve(u) ==
    /\ pc = "fetching"
    /\ upstream' = u
    /\ IF ResponseInitOk(u.status, u.hasBody)
       THEN /\ res' = ProxyResponse(u)
            /\ IF u.hasBody
               THEN pc' = "relaying" /\ upState' = "open" /\ outState' = "open"
               ELSE pc' = "done" /\ upState' = "closed" /\ outState' = "closed"
       ELSE /\ res' = CatchResponse(Error("Invalid response status"))
            /\ pc' = "done" /\ upState' = "closed" /\ outState' = "closed"
    /\ UNCHANGED <<req, decoded, fetches, upBody, failure, out>>

\* Variant of FetchReject that tries the fetch once more.
FetchRejectRetry(message) ==
    /\ pc = "fetching"
    /\ Len(fetches) < 3
    /\ fetches' = Append(fetches, fetches[1])
    /\ UNCHANGED <<pc, req, decoded, upstream, upBody, upState, res, failure, out,
                   outState>>

\* index.ts:46, 69-74: fetch rejects; the catch block answers.
FetchReject(message) ==
    /\ pc = "fetching"
    /\ failure' = message
    /\ Respond(CatchResponse(Error(message)))
    /\ UNCHANGED <<req, decoded, fetches>>

\* The upstream delivers the next chunk of its body.
UpstreamChunk(c) ==
    /\ pc = "relaying" /\ upState = "open"
    /\ Len(upBody) < MaxChunks
    /\ upBody' = Append(upBody, c)
    /\ UNCHANGED <<pc, req, decoded, fetches, upstream, upState, res, failure, out,
                   outState>>

\* The upstream body ends.
UpstreamClose ==
    /\ pc = "relaying" /\ upState = "open"
    /\ upState' = "closed"
    /\ UNCHANGED <<pc, req, decoded, fetches, upstream, upBody, res, failure, out,
                   outState>>

\* The upstream connection fails while the body is being read.
UpstreamError ==
    /\ pc = "relaying" /\ upState = "open"
    /\ upState' = "errored"
    /\ UNCHANGED <<pc, req, decoded, fetches, upstream, upBody, res, failure, out,
                   outState>>

\* Variant of RelayChunk that emits the latest chunk received.
RelayChunkLatest ==
    /\ pc = "relaying" /\ upState # "errored"
    /\ Len(out) < Len(upBody)
    /\ out' = Append(out, upBody[Len(upBody)])
    /\ UNCHANGED <<pc, req, decoded, fetches, upstream, upBody, upState, res,
                   failure, outState>>

\* index.ts:64: response.body is the body of the returned Response, so the
\* next chunk received and not yet emitted goes to the client.
RelayChunk ==
    /\ pc = "relaying" /\ upState # "errored"
    /\ Len(out) < Len(upBody)
    /\ out' = Append(out, upBody[Len(out) + 1])
    /\ UNCHANGED <<pc, req, decoded, fetches, upstream, upBody, upState, res,
                   failure, outState>>

\* The relayed body ends once every chunk of the ended upstream body is out.
RelayClose ==
    /\ pc = "relaying" /\ upState = "closed"
    /\ Len(out) = Len(upBody)
    /\ outState' = "closed"
    /\ pc' = "done"
    /\ UNCHANGED <<req, decoded, fetches, upstream, upBody, upState, res, failure,
                   out>>

\* An errored upstream body errors the relayed body: the connection ends.
RelayAbort ==
    /\ pc = "relaying" /\ upState = "errored"
    /\ outState' = "aborted"
    /\ pc' = "done"
    /\ UNCHANGED <<req, decoded, fetches, upstream, upBody, upState, res, failure,
                   out>>

\* Variant of PreflightResponse without Access-Control-Allow-Headers.
PreflightResponseNoAllowHeaders ==
    [status |-> 200,
     headers |-> HeadersSet(HeadersSet(NoHeaders,
                     "Access-Control-Allow-Origin", Star),
                     "Access-Control-Allow-Methods", AllowMethods),
     body |-> [kind |-> "empty", text |-> "", json |-> NoJson]]

\* index.ts:79-85: new Response(null, {headers}); the status defaults to 200.
PreflightResponse ==
    [status |-> 200,
     headers |-> HeadersSet(HeadersSet(HeadersSet(NoHeaders,
                     "Access-Control-Allow-Origin", Star),
                     "Access-Control-Allow-Methods", AllowMethods),
                     "Access-Control-Allow-Headers", AllowHeaders),
     body |-> [kind |-> "empty", text |-> "", json |-> NoJson]]

\* index.ts:78-86
Preflight(r) ==
    /\ pc = "idle"
    /\ r.method = "OPTIONS" /\ r.path = "stream"
    /\ req' = r
    /\ Respond(PreflightResponse)
    /\ UNCHANGED <<decoded, fetches, failure>>

\* index.ts:88-90
NotFound(r) ==
    /\ pc = "idle"
    /\ ~(r.path = "stream" /\ r.method \in {"GET", "OPTIONS"})
    /\ req' = r
    /\ Respond(TextResponse("Not Found", 404))
    /\ UNCHANGED <<decoded, fetches, failure>>

Next ==
    \/ \E r \in Requests : GetStream(r)
    \/ \E r \in Requests : Preflight(r)
    \/ \E r \in Requests : NotFound(r)
    \/ \E u \in UpstreamResponses : FetchResolve(u)
    \/ \E m \in FetchErrors : FetchReject(m)
    \/ \E c \in Chunks : UpstreamChunk(c)
    \/ UpstreamClose
    \/ UpstreamError
    \/ RelayChunk
    \/ RelayClose
    \/ RelayAbort

Spec == Init /\ [][Next]_vars

(***************************************************************************)
(* Properties.                                                             *)
(***************************************************************************)
IsGetStream == req.method = "GET" /\ req.path = "stream"

IsPreflight == req.method = "OPTIONS" /\ req.path = "stream"

\* The handler has returned a response.
Responded == res # NoResponse

\* The response is the proxied upstream response.
Relayed == IsGetStream /\ res.body.kind \in {"stream", "empty"}

\* What each key decodes to (computed once, by the handler's own decoding).
ParsedKeys == [k \in Keys |-> JSONParse(DecodeKey(k))]

\* What the key of the request decodes to.
Parsed == ParsedKeys[req.key]

DirectUrlField == GetField(Parsed.value, DirectUrlName)

RefererField == GetField(Parsed.value, RefererName)

\* The key is well formed: JSON with directUrl and referer as strings.
ValidKey ==
    /\ req.key # <<>>
    /\ Parsed.ok
    /\ DirectUrlField.type = "string"
    /\ RefererField.type = "string"

AllowList ==
    {"content-type", "content-length", "content-range", "accept-ranges",
     "cache-control", "last-modified", "etag", "content-disposition"}

AllowOrigin == "access-control-allow-origin"

\* C1: a GET whose key is malformed (empty, not base64url, not JSON, or JSON
\* without directUrl or referer as a string) is answered 400, never 500.
C1_MalformedKeyIs400 ==
    (IsGetStream /\ ~ValidKey /\ Responded) => res.status = 400

\* C2: when the descriptor lacks directUrl or referer, or directUrl is not a
\* valid absolute URL, the request is rejected and no upstream fetch is sent.
C2_RejectedBeforeFetch ==
    (/\ IsGetStream /\ req.key # <<>> /\ Parsed.ok
     /\ \/ DirectUrlField.type # "string"
        \/ RefererField.type # "string"
        \/ ~IsFetchableUrl(ToText(DirectUrlField)))
    => /\ fetches = <<>>
       /\ Responded => res.status \in {400, 500} /\ ~Relayed

\* C3, as stated: the headers of a proxied response are exactly the
\* allow-listed headers present upstream, with the upstream values, plus
\* Access-Control-Allow-Origin: *.
C3_AllowListOfPresent ==
    Relayed =>
        /\ DOMAIN res.headers =
               (AllowList \cap DOMAIN upstream.headers) \cup {AllowOrigin}
        /\ \A h \in AllowList \cap DOMAIN upstream.headers :
               res.headers[h] = upstream.headers[h]
        /\ res.headers[AllowOrigin] = Star

\* C3, amended: the headers of a proxied response are exactly the allow-listed
\* headers present upstream with a non-empty value, with the upstream values,
\* plus Access-Control-Allow-Origin: *.
C3_AllowListOfNonEmpty ==
    Relayed =>
        LET kept == {h \in AllowList \cap DOMAIN upstream.headers :
                        upstream.headers[h] # <<>>}
        IN  /\ DOMAIN res.headers = kept \cup {AllowOrigin}
            /\ \A h \in kept : res.headers[h] = upstream.headers[h]
            /\ res.headers[AllowOrigin] = Star

\* Upstream sent an allow-listed header, a cookie and its own CORS header;
\* the client got the first, not the cookie, and the CORS header as "*".
C3_Witness ==
    /\ Relayed
    /\ {"content-type", "set-cookie", AllowOrigin} \subseteq DOMAIN upstream.headers
    /\ upstream.headers[AllowOrigin] = UpstreamOrigin
    /\ DOMAIN res.headers = {"content-type", AllowOrigin}

\* C4, as stated: for a valid key the upstream request goes to directUrl with
\* exactly Referer = the key's referer, User-Agent = the fixed string, and
\* Range = the inbound Range if and only if the request carried a Range.
C4_UpstreamRequestRangeIffCarried ==
    \A i \in 1..Len(fetches) :
        ValidKey =>
            /\ fetches[i].url = DirectUrlField.s
            /\ DOMAIN fetches[i].headers \subseteq {"Referer", "User-Agent", "Range"}
            /\ fetches[i].headers["Referer"] = RefererField.s
            /\ fetches[i].headers["User-Agent"] = UserAgent
            /\ "Range" \in DOMAIN fetches[i].headers <=> "range" \in DOMAIN req.headers
            /\ "Range" \in DOMAIN fetches[i].headers =>
                   fetches[i].headers["Range"] = req.headers["range"]

\* C4, amended: ... and Range = the inbound Range if and only if the request
\* carried a Range header with a non-empty value.
C4_UpstreamRequestRangeIffNonEmpty ==
    \A i \in 1..Len(fetches) :
        ValidKey =>
            /\ fetches[i].url = DirectUrlField.s
            /\ DOMAIN fetches[i].headers \subseteq {"Referer", "User-Agent", "Range"}
            /\ fetches[i].headers["Referer"] = RefererField.s
            /\ fetches[i].headers["User-Agent"] = UserAgent
            /\ "Range" \in DOMAIN fetches[i].headers <=>
                   ("range" \in DOMAIN req.headers /\ req.headers["range"] # <<>>)
            /\ "Range" \in DOMAIN fetches[i].headers =>
                   fetches[i].headers["Range"] = req.headers["range"]

\* A request with Range: bytes=100-199 and its own User-Agent was sent on.
C4_Witness ==
    /\ ValidKey
    /\ Len(fetches) = 1
    /\ "range" \in DOMAIN req.headers /\ req.headers["range"] = RangeBytes
    /\ req.headers["user-agent"] = ClientAgent
    /\ fetches[1].headers["Range"] = RangeBytes

\* C5, as stated: the client response has the status of the upstream
\* response, and a 206 with Content-Range is a 206 with the same Content-Range.
C5_StatusAndContentRange ==
    (upstream # NoUpstream /\ Responded) =>
        /\ res.status = upstream.status
        /\ (upstream.status = 206 /\ "content-range" \in DOMAIN upstream.headers) =>
               /\ "content-range" \in DOMAIN res.headers
               /\ res.headers["content-range"] = upstream.headers["content-range"]

\* C5, amended: the client response has the status of the upstream response,
\* and a 206 with a non-empty Content-Range is a 206 with the same
\* Content-Range.
C5_StatusAndNonEmptyContentRange ==
    (upstream # NoUpstream /\ Responded) =>
        /\ res.status = upstream.status
        /\ (/\ upstream.status = 206
            /\ "content-range" \in DOMAIN upstream.headers
            /\ upstream.headers["content-range"] # <<>>) =>
               /\ "content-range" \in DOMAIN res.headers
               /\ res.headers["content-range"] = upstream.headers["content-range"]

\* Upstream answered 206 with a Content-Range and the client got both.
C5_Witness ==
    /\ upstream.status = 206
    /\ "content-range" \in DOMAIN upstream.headers
    /\ upstream.headers["content-range"] = ContentRangeValue
    /\ res.status = 206
    /\ res.headers["content-range"] = ContentRangeValue

\* C6: when fetch rejects, the handler answers 500 with the JSON body
\* {error: "stream failed", message: the failure's message}; and a 500 of the
\* handler exists only when nothing of an upstream response was relayed.
C6_FetchFailureIs500 ==
    /\ failure # "" =>
           /\ pc = "done"
           /\ res.status = 500
           /\ res.body.kind = "json"
           /\ res.body.json = [error |-> "stream failed", message |-> failure]
    /\ (res.status = 500 /\ res.body.kind = "json") =>
           /\ upstream = NoUpstream
           /\ upBody = <<>> /\ out = <<>>

\* fetch rejected with "connection refused" and the client got the 500.
C6_Witness ==
    /\ failure = "connection refused"
    /\ res.status = 500
    /\ res.body.json["message"] = "connection refused"

\* C7: every response on GET /stream/:stream_key carries
\* Access-Control-Allow-Origin: *.
C7_EveryGetResponseHasCors ==
    (IsGetStream /\ Responded) =>
        /\ AllowOrigin \in DOMAIN res.headers
        /\ res.headers[AllowOrigin] = Star

\* C8: at most one upstream fetch is sent per request, also after a failed
\* fetch or an error status; OPTIONS and unmatched requests send none.
C8_AtMostOneFetch ==
    /\ Len(fetches) <= 1
    /\ ~IsGetStream => fetches = <<>>

\* The single fetch failed, the request is over, and no second one was sent.
C8_Witness ==
    /\ pc = "done"
    /\ failure # ""
    /\ Len(fetches) = 1

\* C9: OPTIONS /stream/:stream_key succeeds for any key with an empty body
\* and exactly the three CORS headers, without decoding the key or fetching.
C9_Preflight ==
    (IsPreflight /\ pc = "done") =>
        /\ res.status = 200
        /\ res.body.kind = "empty"
        /\ DOMAIN res.headers =
               {AllowOrigin, "access-control-allow-methods",
                "access-control-allow-headers"}
        /\ res.headers[AllowOrigin] = Star
        /\ res.headers["access-control-allow-methods"] = AllowMethods
        /\ res.headers["access-control-allow-headers"] = AllowHeaders
        /\ ~decoded
        /\ fetches = <<>>
        /\ out = <<>>

\* A preflight with a key that is not JSON was answered.
C9_Witness ==
    /\ IsPreflight /\ pc = "done"
    /\ req.key = KeyNotJson
    /\ res.status = 200

\* C10: the body emitted to the client is at all times a prefix of the
\* upstream body received so far, and status and headers are those of the
\* returned response before the first body chunk is emitted and never change
\* afterwards.
C10_OrderedRelay ==
    /\ [](/\ Len(out) <= Len(upBody)
          /\ out = SubSeq(upBody, 1, Len(out))
          /\ out # <<>> => Relayed)
    /\ [][(out' # out \/ out # <<>>) => (res' = res /\ Relayed)]_vars

\* A chunk has reached the client while the upstream body is still open and
\* a later chunk is received but not yet emitted.
C10_Witness ==
    /\ upState = "open"
    /\ Len(out) = 1
    /\ Len(upBody) = 2
    /\ upBody[1] # upBody[2]

====
